---- MODULE Spec2Model ----
(***************************************************************************)
(* Session lifecycle of venv/main.py: the user_sessions table of the       *)
(* SQLite store, and the functions create_session, validate_session,       *)
(* cleanup_expired_sessions and logout that read and write it, called by   *)
(* concurrent request handlers.                                            *)
(*                                                                         *)
(* Time is counted in minutes.  datetime.now() is the server's local wall  *)
(* clock, SQLite's datetime('now') is UTC; both are kept as the TEXT the   *)
(* code stores and compares.                                               *)
(***************************************************************************)
EXTENDS Integers, Sequences, FiniteSets, TLC

(* ---------------------------------------------------------------------- *)
(* Bounds of the model                                                     *)
(* ---------------------------------------------------------------------- *)
\* number of clock advances
MaxTicks == 1
\* number of calls of the four functions
MaxCalls == 3
\* number of words and separators in a cookies_accepted value
MaxCookieLen == 4
\* number of sleeps of the background task the clock registers
MaxSleeps == 12

\* concurrent callers: the workers that run the request handlers
Procs == {1, 2}
\* rows of users_auth the handlers log in
Users == {7, 8}
\* how far the clock moves in one advance
TickSteps == {60, 8 * 24 * 60}
\* offset of the server's local time zone to UTC, in minutes
TZOffsets == {-60, 180}

(* ---------------------------------------------------------------------- *)
(* Program constants                                                       *)
(* ---------------------------------------------------------------------- *)
MINUTES_PER_DAY == 24 * 60
\* timedelta(days=7)
REMEMBER_DURATION == 7 * 24 * 60
\* timedelta(minutes=60)
SESSION_DURATION == 60
\* max_age = 7 * 24 * 60 * 60
REMEMBER_MAX_AGE == 7 * 24 * 60 * 60
\* max_age = 30 * 60
SESSION_MAX_AGE == 30 * 60
\* timedelta(minutes=30) of the renewal
PROLONG_DURATION == 30

VARIABLES
    table,     \* committed rows of user_sessions
    lock,      \* the connection holding SQLite's write lock, or NoProc
    tx,        \* the uncommitted rows of the connection holding the lock
    pc,        \* where each caller stands
    call,      \* locals of each caller's running function
    clock,     \* UTC time, minutes
    tz,        \* offset of local time to UTC, minutes
    issued,    \* number of token pairs generated so far
    ticks,     \* number of clock advances so far
    calls,     \* number of calls started so far
    removed,   \* history: <<session_id, access_token>> of every row whose removal was committed
    last       \* history: the call that returned in the step leading here

vars == <<table, lock, tx, pc, call, clock, tz, issued, ticks, calls, removed, last>>

NoProc == 0

(* ---------------------------------------------------------------------- *)
(* Time as the code stores it                                              *)
(* ---------------------------------------------------------------------- *)
\* datetime.now(): naive local time
LocalNow == clock + tz

\* datetime.isoformat(): "YYYY-MM-DDTHH:MM:SS.ffffff"
isoformat(t) ==
    [date |-> t \div MINUTES_PER_DAY, sep |-> "T", time |-> t % MINUTES_PER_DAY]

\* datetime.fromisoformat()
fromisoformat(s) == s.date * MINUTES_PER_DAY + s.time

\* SQLite datetime('now') and CURRENT_TIMESTAMP: "YYYY-MM-DD HH:MM:SS", UTC
sqlite_datetime(t) ==
    [date |-> t \div MINUTES_PER_DAY, sep |-> " ", time |-> t % MINUTES_PER_DAY]

\* code point of the character between date and time
SepOrd(c) == IF c = "T" THEN 84 ELSE 32

\* SQLite's < on two TEXT values (BINARY collation): the date digits, then the
\* separator, then the time digits
TextLess(a, b) ==
    \/ a.date < b.date
    \/ a.date = b.date /\ SepOrd(a.sep) < SepOrd(b.sep)
    \/ a.date = b.date /\ a.sep = b.sep /\ a.time < b.time

NoTime == [date |-> 0, sep |-> "", time |-> 0]

(* ---------------------------------------------------------------------- *)
(* users_auth (external): login and email of a user id                     *)
(* ---------------------------------------------------------------------- *)
UserLogin(u) == <<"login", u>>
UserEmail(u) == <<"email", u>>

(* ---------------------------------------------------------------------- *)
(* Rows and statements on user_sessions                                    *)
(* ---------------------------------------------------------------------- *)
\* A token is the pair of its length in bytes and a serial number that tells
\* the values apart; NoToken is the absent or empty cookie (None).
NoToken == <<0, 0>>

NoRow ==
    [session_id |-> NoToken, user_id |-> 0, user_login |-> <<>>, email |-> <<>>,
     access_token |-> NoToken, last_activity |-> NoTime, expires_at |-> NoTime,
     remember_me |-> FALSE]

\* the old rows are kept
DeleteByUser_kept(rows, user_id) == rows

\* DELETE FROM user_sessions WHERE user_id = ?
DeleteByUser(rows, user_id) == {r \in rows : r.user_id # user_id}

\* DELETE FROM user_sessions WHERE session_id = ?
DeleteBySession(rows, session_id) == {r \in rows : r.session_id # session_id}

\* the row of INSERT INTO user_sessions (...); last_activity takes its default
NewRow(session_id, user_id, access_token, expires_at, remember_me) ==
    [session_id |-> session_id, user_id |-> user_id,
     user_login |-> UserLogin(user_id), email |-> UserEmail(user_id),
     access_token |-> access_token, last_activity |-> sqlite_datetime(clock),
     expires_at |-> expires_at, remember_me |-> remember_me]

\* the row is not written
InsertRow_lost(rows, row) == rows

\* INSERT INTO user_sessions
InsertRow(rows, row) == rows \cup {row}

\* the access_token is not compared
SelectSession_by_id(rows, session_id, access_token) ==
    {r \in rows : r.session_id = session_id}

\* SELECT ... WHERE session_id = ? AND access_token = ?
SelectSession(rows, session_id, access_token) ==
    {r \in rows : r.session_id = session_id /\ r.access_token = access_token}

\* the row is written anew and remember_me takes the column's default
TouchSession_replacing(rows, session_id) ==
    {IF r.session_id = session_id
       THEN [r EXCEPT !.last_activity = sqlite_datetime(clock), !.remember_me = FALSE]
       ELSE r : r \in rows}

\* UPDATE user_sessions SET last_activity = datetime('now') WHERE session_id = ?
TouchSession(rows, session_id) ==
    {IF r.session_id = session_id
       THEN [r EXCEPT !.last_activity = sqlite_datetime(clock)]
       ELSE r : r \in rows}

\* the WHERE clause matches no row
RenewSession_none(rows, session_id, new_expires) == rows

\* UPDATE user_sessions SET expires_at = ? WHERE session_id = ?
RenewSession(rows, session_id, new_expires) ==
    {IF r.session_id = session_id
       THEN [r EXCEPT !.expires_at = new_expires]
       ELSE r : r \in rows}

\* DELETE FROM user_sessions WHERE expires_at < datetime('now')
DeleteExpired(rows) ==
    {r \in rows : ~TextLess(r.expires_at, sqlite_datetime(clock))}

\* the columns validate_session selects
Selected(r) ==
    [user_id |-> r.user_id, user_login |-> r.user_login, email |-> r.email,
     expires_at |-> r.expires_at, remember_me |-> r.remember_me]

NoResult ==
    [user_id |-> 0, user_login |-> <<>>, email |-> <<>>, expires_at |-> NoTime,
     remember_me |-> FALSE]

Pairs(rows) == {<<r.session_id, r.access_token>> : r \in rows}

\* The cookies_accepted cookie of a request: a string, kept as the sequence of
\* its words and separators; a request either carries the cookie or not.
Absent == [present |-> FALSE, value |-> <<>>]
Cookie(s) == [present |-> TRUE, value |-> s]
NoRequest == [present |-> FALSE, value |-> <<"-">>]

(* ---------------------------------------------------------------------- *)
(* Locals and results                                                      *)
(* ---------------------------------------------------------------------- *)
NoCall ==
    [op |-> "none", session_id |-> NoToken, access_token |-> NoToken, prolong |-> FALSE,
     user_id |-> 0, remember_me |-> FALSE, consent |-> NoRequest,
     expires_at |-> NoTime, result |-> NoResult,
     checked_at |-> 0, renewed_at |-> 0, deleted_count |-> 0]

NoReturn ==
    [valid |-> FALSE, reason |-> "", user_id |-> 0, user_login |-> <<>>,
     email |-> <<>>, remember_me |-> FALSE, expires_at |-> NoTime,
     session_id |-> NoToken, access_token |-> NoToken, max_age |-> 0, deleted |-> 0]

NoEvent == [call |-> NoCall, ret |-> NoReturn]

Returned(c, r) == [call |-> c, ret |-> r]

\* conn.commit(): the connection's rows become the table, the lock is released
Commit ==
    /\ table' = tx
    /\ removed' = removed \cup (Pairs(table) \ Pairs(tx))
    /\ lock' = NoProc
    /\ tx' = {}

\* the first writing statement of a connection takes the write lock; a second
\* writer waits in SQLite's busy handler until the lock is free
Begin(p, rows) ==
    /\ lock = NoProc
    /\ lock' = p
    /\ tx' = rows

\* a request arrives and goes to the first idle worker (the workers are
\* interchangeable); its handler calls one of the four functions
Dispatch(p) ==
    /\ pc[p] = "idle"
    /\ \A q \in Procs : q < p => pc[q] # "idle"
    /\ calls < MaxCalls
    /\ calls' = calls + 1

Init ==
    /\ table = {}
    /\ lock = NoProc
    /\ tx = {}
    /\ pc = [p \in Procs |-> "idle"]
    /\ call = [p \in Procs |-> NoCall]
    /\ clock = MINUTES_PER_DAY
    /\ tz \in TZOffsets
    /\ issued = 0
    /\ ticks = 0
    /\ calls = 0
    /\ removed = {}
    /\ last = NoEvent

\* time passes
Tick ==
    /\ ticks < MaxTicks
    /\ \E d \in TickSteps : clock' = clock + d
    /\ ticks' = ticks + 1
    /\ last' = NoEvent
    /\ UNCHANGED <<table, lock, tx, pc, call, tz, issued, calls, removed>>

(* ---------------------------------------------------------------------- *)
(* Consent gate                                                            *)
(* ---------------------------------------------------------------------- *)

\* request.cookies.get("cookies_accepted", "false")
cookies_get(request) == IF request.present THEN request.value ELSE <<"false">>

\* s.startswith("selected:")
startswith_selected(s) == Len(s) >= 2 /\ s[1] = "selected" /\ s[2] = ":"

\* s.split(sep): the pieces between the separators, empty pieces included
RECURSIVE split(_, _)
split(s, sep) ==
    IF \A i \in 1..Len(s) : s[i] # sep
      THEN <<s>>
      ELSE LET k == CHOOSE i \in 1..Len(s) :
                        s[i] = sep /\ \A j \in 1..(i - 1) : s[j] # sep
           IN  <<SubSeq(s, 1, k - 1)>> \o split(SubSeq(s, k + 1, Len(s)), sep)

\* x in list
contains(list, x) == \E i \in 1..Len(list) : list[i] = x

can_set_session_cookies(request) ==
    LET cookies_accepted == cookies_get(request) IN
    IF cookies_accepted = <<"true">>
      THEN TRUE
      ELSE IF startswith_selected(cookies_accepted)
        THEN LET selected_types == split(split(cookies_accepted, ":")[2], ",")
             IN  contains(selected_types, <<"session">>)
        ELSE FALSE

\* the consent cookies the handlers of this model send
ConsentRequests ==
    {Absent, Cookie(<<"true">>),
     Cookie(<<"selected", ":", "functional">>),
     Cookie(<<"selected", ":", "functional", ",", "session">>)}

(* ---------------------------------------------------------------------- *)
(* create_session                                                          *)
(* ---------------------------------------------------------------------- *)
\* a generator that repeats itself
token_urlsafe_fixed(nbytes) == <<nbytes, 1>>

\* secrets.token_urlsafe(nbytes): a value no earlier call has produced
token_urlsafe(nbytes) == <<nbytes, issued + 1>>

\* the gate is not asked
consent_required_skipped(request) == FALSE

\* if not can_set_session_cookies(request)
consent_required(request) == ~can_set_session_cookies(request)

\* the 30 minutes of the comment for an ordinary session
session_duration_as_commented(remember_me) ==
    IF remember_me THEN REMEMBER_DURATION ELSE 30

session_duration(remember_me) ==
    IF remember_me THEN REMEMBER_DURATION ELSE SESSION_DURATION

max_age(remember_me) ==
    IF remember_me THEN REMEMBER_MAX_AGE ELSE SESSION_MAX_AGE

\* the consent gate refuses: return None, None, 0
CreateRefused(p) ==
    /\ Dispatch(p)
    /\ \E request \in ConsentRequests :
          /\ consent_required(request)
          /\ last' = Returned(
                 [NoCall EXCEPT !.op = "create_session", !.consent = request],
                 NoReturn)
    /\ UNCHANGED <<table, lock, tx, pc, call, clock, tz, issued, ticks, removed>>

\* no constraint on the table
UniqueViolation_unchecked(rows, row) == FALSE

\* a row that breaks PRIMARY KEY(session_id) or UNIQUE(access_token)
UniqueViolation(rows, row) ==
    \E r \in rows : r.session_id = row.session_id \/ r.access_token = row.access_token

\* the uncommitted rows are committed instead
Rollback_committed(p) ==
    IF lock = p
      THEN Commit
      ELSE UNCHANGED <<table, removed, lock, tx>>

\* conn.rollback(): the uncommitted statements of the connection are
\* discarded and its lock is released; nothing to do without a transaction
Rollback(p) ==
    /\ table' = table
    /\ removed' = removed
    /\ lock' = IF lock = p THEN NoProc ELSE lock
    /\ tx' = IF lock = p THEN {} ELSE tx

\* every statement is committed as it is executed
Close_autocommit(p) ==
    IF lock = p
      THEN Commit
      ELSE UNCHANGED <<table, removed, lock, tx>>

\* conn.close() on a connection that has not committed: as a rollback
Close(p) ==
    /\ table' = table
    /\ removed' = removed
    /\ lock' = IF lock = p THEN NoProc ELSE lock
    /\ tx' = IF lock = p THEN {} ELSE tx

\* the gate passes; expires_at is computed; then
\* DELETE FROM user_sessions WHERE user_id = ?; INSERT INTO user_sessions,
\* which raises IntegrityError on a row that breaks a constraint
CreateInsert(p, user_id, remember_me, request, session_id, access_token) ==
    LET expires_at == isoformat(LocalNow + session_duration(remember_me))
        row == NewRow(session_id, user_id, access_token, expires_at, remember_me)
        rows == DeleteByUser(table, user_id)
    IN  /\ ~consent_required(request)
        /\ IF UniqueViolation(rows, row)
             THEN /\ Begin(p, rows)
                  /\ pc' = [pc EXCEPT ![p] = "create_rollback"]
             ELSE /\ Begin(p, InsertRow(rows, row))
                  /\ pc' = [pc EXCEPT ![p] = "create_commit"]
        /\ call' = [call EXCEPT ![p] =
               [NoCall EXCEPT !.op = "create_session", !.user_id = user_id,
                              !.remember_me = remember_me,
                              !.consent = request,
                              !.session_id = session_id,
                              !.access_token = access_token,
                              !.expires_at = expires_at,
                              !.checked_at = LocalNow]]

\* create_session with the tokens of secrets.token_urlsafe
CreateWrite(p) ==
    /\ Dispatch(p)
    /\ \E user_id \in Users, remember_me \in BOOLEAN, request \in ConsentRequests :
          CreateInsert(p, user_id, remember_me, request,
                       token_urlsafe(32), token_urlsafe(48))
    /\ issued' = issued + 1
    /\ last' = NoEvent
    /\ UNCHANGED <<table, clock, tz, ticks, removed>>

\* except Exception: conn.rollback(); return None, None, 0
CreateRollback(p) ==
    /\ pc[p] = "create_rollback"
    /\ Rollback(p)
    /\ pc' = [pc EXCEPT ![p] = "idle"]
    /\ call' = [call EXCEPT ![p] = NoCall]
    /\ last' = Returned(call[p], NoReturn)
    /\ UNCHANGED <<clock, tz, issued, ticks, calls>>

\* conn.commit(); return session_id, access_token, max_age
CreateCommit(p) ==
    /\ pc[p] = "create_commit"
    /\ Commit
    /\ pc' = [pc EXCEPT ![p] = "idle"]
    /\ call' = [call EXCEPT ![p] = NoCall]
    /\ last' = Returned( call[p],
           [NoReturn EXCEPT !.session_id = call[p].session_id,
                            !.access_token = call[p].access_token,
                            !.max_age = max_age(call[p].remember_me)])
    /\ UNCHANGED <<clock, tz, issued, ticks, calls>>

create_session(p) ==
    \/ CreateRefused(p)
    \/ CreateWrite(p)
    \/ CreateCommit(p)

(* ---------------------------------------------------------------------- *)
(* validate_session                                                        *)
(* ---------------------------------------------------------------------- *)
\* the values the session_id and the access_token cookie of a request carry:
\* none, or a token some create_session has generated
SessionIdCookies == {NoToken} \cup {<<32, i>> : i \in 1..issued}
AccessTokenCookies == {NoToken} \cup {<<48, i>> : i \in 1..issued}

\* the comparison the other way round
is_expired_reversed(now, expires_at_str) == now < fromisoformat(expires_at_str)

\* the instant of expires_at counts as expired
is_expired_inclusive(now, expires_at_str) == now >= fromisoformat(expires_at_str)

\* datetime.now() > datetime.fromisoformat(expires_at_str)
is_expired(now, expires_at_str) == now > fromisoformat(expires_at_str)

\* remember_me is not looked at
should_prolong_always(prolong, remember_me) == prolong

\* prolong and not remember_me
should_prolong(prolong, remember_me) == prolong /\ ~remember_me

\* the duration of create_session instead of the 30 minutes
new_expires_as_created(now) == isoformat(now + SESSION_DURATION)

\* (datetime.now() + timedelta(minutes=30)).isoformat()
new_expires(now) == isoformat(now + PROLONG_DURATION)

\* if not session_id or not access_token: returns before prolong is read,
\* so only the parameter's default is drawn
ValidateNoSession(p) ==
    /\ Dispatch(p)
    /\ \E session_id \in SessionIdCookies, access_token \in AccessTokenCookies,
          prolong \in {TRUE} :
          /\ session_id = NoToken \/ access_token = NoToken
          /\ last' = Returned(
                 [NoCall EXCEPT !.op = "validate_session", !.session_id = session_id,
                                !.access_token = access_token, !.prolong = prolong],
                 [NoReturn EXCEPT !.reason = "no_session"])
    /\ UNCHANGED <<table, lock, tx, pc, call, clock, tz, issued, ticks, removed>>

\* the SELECT and the expiry check on its row
ValidateSelect(p) ==
    /\ Dispatch(p)
    /\ \E session_id \in SessionIdCookies \ {NoToken},
          access_token \in AccessTokenCookies \ {NoToken}, prolong \in BOOLEAN :
          LET found == SelectSession(table, session_id, access_token)
              c == [NoCall EXCEPT !.op = "validate_session",
                                  !.session_id = session_id,
                                  !.access_token = access_token,
                                  !.prolong = prolong]
          IN  IF found = {}
                THEN /\ last' = Returned(c,
                            [NoReturn EXCEPT !.reason = "session_not_found"])
                     /\ UNCHANGED <<pc, call>>
                ELSE LET result == Selected(CHOOSE r \in found : TRUE) IN
                     /\ call' = [call EXCEPT ![p] =
                            [c EXCEPT !.result = result, !.checked_at = LocalNow]]
                     /\ pc' = [pc EXCEPT ![p] =
                            IF is_expired(LocalNow, result.expires_at)
                              THEN "validate_delete" ELSE "validate_update"]
                     /\ last' = NoEvent
    /\ UNCHANGED <<table, lock, tx, clock, tz, issued, ticks, removed>>

\* the session is expired: DELETE FROM user_sessions WHERE session_id = ?
ValidateDelete(p) ==
    /\ pc[p] = "validate_delete"
    /\ Begin(p, DeleteBySession(table, call[p].session_id))
    /\ pc' = [pc EXCEPT ![p] = "validate_delete_commit"]
    /\ last' = NoEvent
    /\ UNCHANGED <<table, call, clock, tz, issued, ticks, removed, calls>>

\* the reason alone, whatever the row
expired_result_bare(result) == [NoReturn EXCEPT !.reason = "session_expired"]

\* the dict returned for an expired session: email and remember_me for the
\* automatic login if the row is remember-me, the reason alone otherwise
expired_result(result) ==
    IF result.remember_me
      THEN [NoReturn EXCEPT !.reason = "session_expired",
                            !.email = result.email, !.remember_me = TRUE]
      ELSE [NoReturn EXCEPT !.reason = "session_expired"]

\* conn.commit(); return "session_expired"
ValidateDeleteCommit(p) ==
    LET result == call[p].result IN
    /\ pc[p] = "validate_delete_commit"
    /\ Commit
    /\ pc' = [pc EXCEPT ![p] = "idle"]
    /\ call' = [call EXCEPT ![p] = NoCall]
    /\ last' = Returned(call[p], expired_result(result))
    /\ UNCHANGED <<clock, tz, issued, ticks, calls>>

\* UPDATE ... SET last_activity; if prolong and not remember_me: UPDATE ... SET expires_at
ValidateUpdate(p) ==
    LET c == call[p]
        touched == TouchSession(table, c.session_id)
    IN  /\ pc[p] = "validate_update"
        /\ Begin(p, IF should_prolong(c.prolong, c.result.remember_me)
                      THEN RenewSession(touched, c.session_id, new_expires(LocalNow))
                      ELSE touched)
        /\ call' = [call EXCEPT ![p].renewed_at = LocalNow]
        /\ pc' = [pc EXCEPT ![p] = "validate_commit"]
        /\ last' = NoEvent
        /\ UNCHANGED <<table, clock, tz, issued, ticks, removed, calls>>

\* conn.commit(); return valid
ValidateCommit(p) ==
    LET result == call[p].result IN
    /\ pc[p] = "validate_commit"
    /\ Commit
    /\ pc' = [pc EXCEPT ![p] = "idle"]
    /\ call' = [call EXCEPT ![p] = NoCall]
    /\ last' = Returned(call[p],
           [NoReturn EXCEPT !.valid = TRUE, !.user_id = result.user_id,
                            !.user_login = result.user_login,
                            !.email = result.email,
                            !.remember_me = result.remember_me,
                            !.expires_at = result.expires_at])
    /\ UNCHANGED <<clock, tz, issued, ticks, calls>>

validate_session(p) ==
    \/ ValidateNoSession(p)
    \/ ValidateSelect(p)
    \/ ValidateDelete(p)
    \/ ValidateDeleteCommit(p)
    \/ ValidateUpdate(p)
    \/ ValidateCommit(p)

(* ---------------------------------------------------------------------- *)
(* logout                                                                  *)
(* ---------------------------------------------------------------------- *)
\* no session_id cookie: nothing is deleted
LogoutNoCookie(p) ==
    /\ Dispatch(p)
    /\ last' = Returned([NoCall EXCEPT !.op = "logout"], NoReturn)
    /\ UNCHANGED <<table, lock, tx, pc, call, clock, tz, issued, ticks, removed>>

\* DELETE FROM user_sessions WHERE session_id = ?
LogoutDelete(p) ==
    /\ Dispatch(p)
    /\ \E session_id \in SessionIdCookies \ {NoToken} :
          /\ Begin(p, DeleteBySession(table, session_id))
          /\ call' = [call EXCEPT ![p] =
                 [NoCall EXCEPT !.op = "logout", !.session_id = session_id]]
    /\ pc' = [pc EXCEPT ![p] = "logout_commit"]
    /\ last' = NoEvent
    /\ UNCHANGED <<table, clock, tz, issued, ticks, removed>>

\* conn.commit()
LogoutCommit(p) ==
    /\ pc[p] = "logout_commit"
    /\ Commit
    /\ pc' = [pc EXCEPT ![p] = "idle"]
    /\ call' = [call EXCEPT ![p] = NoCall]
    /\ last' = Returned(call[p], NoReturn)
    /\ UNCHANGED <<clock, tz, issued, ticks, calls>>

logout(p) ==
    \/ LogoutNoCookie(p)
    \/ LogoutDelete(p)
    \/ LogoutCommit(p)

(* ---------------------------------------------------------------------- *)
(* cleanup_expired_sessions                                                *)
(* ---------------------------------------------------------------------- *)
\* DELETE FROM user_sessions WHERE expires_at < datetime('now'); cursor.rowcount
CleanupDelete(p) ==
    LET kept == DeleteExpired(table) IN
    /\ Dispatch(p)
    /\ Begin(p, kept)
    /\ call' = [call EXCEPT ![p] =
           [NoCall EXCEPT !.op = "cleanup_expired_sessions",
                          !.checked_at = LocalNow,
                          !.deleted_count = Cardinality(table) - Cardinality(kept)]]
    /\ pc' = [pc EXCEPT ![p] = "cleanup_commit"]
    /\ last' = NoEvent
    /\ UNCHANGED <<table, clock, tz, issued, ticks, removed>>

\* conn.commit(); return deleted_count
CleanupCommit(p) ==
    /\ pc[p] = "cleanup_commit"
    /\ Commit
    /\ pc' = [pc EXCEPT ![p] = "idle"]
    /\ call' = [call EXCEPT ![p] = NoCall]
    /\ last' = Returned(call[p], [NoReturn EXCEPT !.deleted = call[p].deleted_count])
    /\ UNCHANGED <<clock, tz, issued, ticks, calls>>

cleanup_expired_sessions(p) ==
    \/ CleanupDelete(p)
    \/ CleanupCommit(p)

Next ==
    \/ Tick
    \/ \E p \in Procs : create_session(p)
    \/ \E p \in Procs : validate_session(p)
    \/ \E p \in Procs : logout(p)
    \/ \E p \in Procs : cleanup_expired_sessions(p)

Spec == Init /\ [][Next]_vars

(* ---------------------------------------------------------------------- *)
(* The consent gate on its own: a handler calls can_set_session_cookies    *)
(* on a request carrying any cookies_accepted value of up to MaxCookieLen  *)
(* words.                                                                  *)
(* ---------------------------------------------------------------------- *)
CookieWords == {"true", "false", "selected", "session", "functional", ":", ","}

GateRequests ==
    {Absent} \cup
    {Cookie(s) : s \in UNION {[1..n -> CookieWords] : n \in 0..MaxCookieLen}}

InitGate ==
    /\ table = {}
    /\ lock = NoProc
    /\ tx = {}
    /\ pc = [p \in Procs |-> "gate"]
    /\ \E request \in GateRequests :
          call = [p \in Procs |->
                    [NoCall EXCEPT !.op = "can_set_session_cookies",
                                   !.consent = request]]
    /\ clock = MINUTES_PER_DAY
    /\ tz = 0
    /\ issued = 0
    /\ ticks = 0
    /\ calls = 0
    /\ removed = {}
    /\ last = NoEvent

GateReturn(p) ==
    /\ pc[p] = "gate"
    /\ pc' = [pc EXCEPT ![p] = "idle"]
    /\ call' = [call EXCEPT ![p] = NoCall]
    /\ last' = Returned(call[p],
           [NoReturn EXCEPT !.valid = can_set_session_cookies(call[p].consent)])
    /\ UNCHANGED <<table, lock, tx, clock, tz, issued, ticks, calls, removed>>

NextGate == \E p \in Procs : GateReturn(p)

SpecGate == InitGate /\ [][NextGate]_vars

(* ---------------------------------------------------------------------- *)
(* Properties                                                              *)
(* ---------------------------------------------------------------------- *)
RowsOfUser(rows, user_id) == {r \in rows : r.user_id = user_id}
RowsOfSession(rows, session_id) == {r \in rows : r.session_id = session_id}

\* the call that has just returned
ReturnedFrom(op) == last.call.op = op
CreatedSession == ReturnedFrom("create_session") /\ last.ret.session_id # NoToken

\* C1: in every reachable state the user_sessions table holds at most one row
\* per user_id, whatever the interleaving of the four functions.
C1_OneRowPerUser ==
    \A r1 \in table, r2 \in table : r1.user_id = r2.user_id => r1 = r2

\* a second create_session for a user has returned and replaced the first
C1_Witness ==
    /\ CreatedSession
    /\ calls = 2
    /\ removed # {}
    /\ Cardinality(RowsOfUser(table, last.call.user_id)) = 1

\* C2: when create_session returns tokens, exactly one row of that user exists
\* and it holds the session_id and access_token just returned.
C2_CreateLeavesTheNewRow ==
    CreatedSession =>
        /\ Cardinality(RowsOfUser(table, last.call.user_id)) = 1
        /\ \A r \in RowsOfUser(table, last.call.user_id) :
              /\ r.session_id = last.ret.session_id
              /\ r.access_token = last.ret.access_token

\* the second create_session of a user returns: the row is the new one, the
\* pair of the first is gone
C2_Witness ==
    /\ CreatedSession
    /\ last.ret.session_id = <<32, 2>>
    /\ <<<<32, 1>>, <<48, 1>>>> \in removed
    /\ \E r \in table : r.user_id = last.call.user_id /\ r.session_id = <<32, 2>>

\* a validate_session call of p has read a row and goes on
ValidateFound(p) ==
    pc[p] = "idle" /\ pc'[p] \in {"validate_delete", "validate_update"}

\* C3: validate_session finds a row iff session_id and access_token both equal
\* those of one stored row; every other pair, a valid session_id with the
\* access_token of another session included, gets "session_not_found".
C3_TokenPairExact ==
    [][/\ (last'.call.op = "validate_session"
              /\ last'.ret.reason = "session_not_found")
          => /\ ~\E r \in table : /\ r.session_id = last'.call.session_id
                                  /\ r.access_token = last'.call.access_token
             /\ last'.ret = [NoReturn EXCEPT !.reason = "session_not_found"]
       /\ \A p \in Procs : ValidateFound(p)
          => \E r \in table : /\ r.session_id = call'[p].session_id
                              /\ r.access_token = call'[p].access_token
                              /\ Selected(r) = call'[p].result]_vars

\* the session_id of one stored session with the access_token of another
C3_Witness ==
    /\ ReturnedFrom("validate_session")
    /\ last.ret.reason = "session_not_found"
    /\ \E r1 \in table, r2 \in table :
          /\ r1 # r2
          /\ r1.session_id = last.call.session_id
          /\ r2.access_token = last.call.access_token

\* validate_session has returned for a row whose expires_at was in the past
\* when the call checked it
ValidatedExpired ==
    /\ ReturnedFrom("validate_session")
    /\ last.call.result # NoResult
    /\ fromisoformat(last.call.result.expires_at) < last.call.checked_at

\* C4: for either value of prolong, validate_session on the correct pair of a
\* session whose expires_at is in the past does not return valid, and the
\* session's row is gone when it returns.
C4_EagerExpiry ==
    ValidatedExpired =>
        /\ ~last.ret.valid
        /\ last.ret.reason = "session_expired"
        /\ RowsOfSession(table, last.call.session_id) = {}

C4_Witness == ValidatedExpired /\ last.call.prolong

\* C5: once the removal of a session's row is committed, its token pair is in
\* no row again, and every validate_session started afterwards with that pair
\* returns "session_not_found".
C5_RemovedStaysInvalid ==
    [][/\ Pairs(table') \cap removed' = {}
       /\ \A p \in Procs : ValidateFound(p)
            => <<call'[p].session_id, call'[p].access_token>> \notin removed
       /\ (pc' = pc /\ last'.call.op = "validate_session"
              /\ <<last'.call.session_id, last'.call.access_token>> \in removed)
          => (~last'.ret.valid /\ last'.ret.reason = "session_not_found")]_vars

\* validate_session with the pair of a removed session
C5_Witness ==
    /\ ReturnedFrom("validate_session")
    /\ <<last.call.session_id, last.call.access_token>> \in removed
    /\ last.ret.reason = "session_not_found"

\* create_session has returned for a request the consent gate refuses
CreateWithoutConsent ==
    /\ ReturnedFrom("create_session")
    /\ ~can_set_session_cookies(last.call.consent)

\* C6: when the consent gate returns false, create_session returns
\* (None, None, 0) and the table is as it was: no row inserted, none deleted.
C6_NoConsentNoWrite ==
    [][/\ (last'.call.op = "create_session"
              /\ ~can_set_session_cookies(last'.call.consent))
          => (last'.ret = NoReturn /\ table' = table /\ tx' = tx /\ lock' = lock)
       /\ \A p \in Procs : (pc'[p] = "create_commit" /\ pc[p] = "idle")
                              => can_set_session_cookies(call'[p].consent)]_vars

\* refused while the user_sessions table holds a row
C6_Witness ==
    /\ CreateWithoutConsent
    /\ last.call.consent = Cookie(<<"selected", ":", "functional">>)
    /\ table # {}

\* C8: validate_session changes the expires_at of a row only when prolong is
\* true and the row is not remember-me.
C8_RenewalExclusion ==
    [][\A p \in Procs :
         (pc[p] \in {"validate_commit", "validate_delete_commit"} /\ pc'[p] = "idle")
         => \A r1 \in table, r2 \in table' :
               (r1.session_id = r2.session_id /\ r1.expires_at # r2.expires_at)
               => (call[p].prolong /\ ~r1.remember_me)]_vars

\* a remember-me session validated with prolong=true, at a time when a
\* renewal would have written another expires_at
C8_Witness ==
    /\ ReturnedFrom("validate_session")
    /\ last.ret.valid
    /\ last.call.prolong
    /\ last.ret.remember_me
    /\ \E r \in RowsOfSession(table, last.call.session_id) :
          /\ r.expires_at = last.call.result.expires_at
          /\ r.expires_at # new_expires(last.call.renewed_at)

\* validate_session(prolong=true) has returned valid for a session that is
\* not remember-me
ValidatedAndRenewed ==
    /\ ReturnedFrom("validate_session")
    /\ last.ret.valid
    /\ last.call.prolong
    /\ ~last.ret.remember_me

\* C9: after validate_session(prolong=true) returns valid for a session that
\* is not remember-me, the stored expires_at is the time of the call + 30
\* minutes.
C9_RenewalInclusion ==
    ValidatedAndRenewed =>
        \A r \in RowsOfSession(table, last.call.session_id) :
            fromisoformat(r.expires_at) = last.call.renewed_at + 30

C9_Witness ==
    /\ ValidatedAndRenewed
    /\ RowsOfSession(table, last.call.session_id) # {}
    /\ ticks > 0

\* C10: after cleanup_expired_sessions returns, no row remains whose
\* expires_at is earlier than the time of the call, on the clock
\* validate_session uses.
C10_SweepCompleteness ==
    ReturnedFrom("cleanup_expired_sessions") =>
        \A r \in table : ~(fromisoformat(r.expires_at) < last.call.checked_at)

\* the gate as specified: "true", or "selected:" followed by a comma-separated
\* list of categories that contains "session"
SpecifiedGate(request) ==
    LET value == cookies_get(request) IN
    \/ value = <<"true">>
    \/ /\ startswith_selected(value)
       /\ contains(split(SubSeq(value, 3, Len(value)), ","), <<"session">>)

\* C7: can_set_session_cookies returns true iff the preference is exactly
\* "true", or has the "selected:<comma-separated-categories>" form with
\* "session" in the list; false for an absent cookie and every other value.
C7_GateAsSpecified ==
    ReturnedFrom("can_set_session_cookies") =>
        (last.ret.valid <=> SpecifiedGate(last.call.consent))

\* C11: cleanup_expired_sessions removes or changes no row that
\* validate_session would accept as unexpired at the time of the sweep: every
\* such row of the table before the sweep is in the table after it, unchanged.
C11_SweepKeepsUnexpired ==
    [][\A p \in Procs :
         (pc[p] = "cleanup_commit" /\ pc'[p] = "idle")
         => \A r \in table :
               ~is_expired(call[p].checked_at, r.expires_at) => r \in table']_vars

(* ---------------------------------------------------------------------- *)
(* Token collisions: secrets.token_urlsafe may return a value it has       *)
(* returned before.                                                        *)
(* ---------------------------------------------------------------------- *)
\* the values secrets.token_urlsafe(nbytes) can return: one generated before,
\* or a new one
token_urlsafe_any(nbytes) == {<<nbytes, i>> : i \in 1..(issued + 1)}

\* create_session with any tokens
CreateWriteColliding(p) ==
    /\ Dispatch(p)
    /\ \E user_id \in Users, remember_me \in BOOLEAN, request \in ConsentRequests,
          session_id \in token_urlsafe_any(32), access_token \in token_urlsafe_any(48) :
          CreateInsert(p, user_id, remember_me, request, session_id, access_token)
    /\ issued' = issued + 1
    /\ last' = NoEvent
    /\ UNCHANGED <<table, clock, tz, ticks, removed>>

create_session_colliding(p) ==
    \/ CreateRefused(p)
    \/ CreateWriteColliding(p)
    \/ CreateCommit(p)
    \/ CreateRollback(p)

\* The clock stands still in this specification (expiry plays no part in the
\* constraints), so validate_session does not take its expired branch.
NextCollide ==
    \/ \E p \in Procs : create_session_colliding(p)
    \/ \E p \in Procs : ValidateNoSession(p)
    \/ \E p \in Procs : ValidateSelect(p)
    \/ \E p \in Procs : ValidateUpdate(p)
    \/ \E p \in Procs : ValidateCommit(p)
    \/ \E p \in Procs : logout(p)
    \/ \E p \in Procs : cleanup_expired_sessions(p)

SpecCollide == Init /\ [][NextCollide]_vars

\* create_session has returned without tokens for a request the gate accepts
CreateFailed ==
    /\ ReturnedFrom("create_session")
    /\ can_set_session_cookies(last.call.consent)
    /\ last.ret = NoReturn

\* a row of another user holds the session_id or the access_token of the call
Collides(c, rows) ==
    \E r \in rows : /\ r.user_id # c.user_id
                    /\ (r.session_id = c.session_id \/ r.access_token = c.access_token)

\* C12: no two rows share a session_id, no two rows share an access_token; a
\* create_session whose generated session_id or access_token is that of a row
\* of another user returns no tokens and leaves the table as it was.
C12_TokensUnique ==
    [][/\ \A r1 \in table', r2 \in table' :
             (r1.session_id = r2.session_id \/ r1.access_token = r2.access_token)
             => r1 = r2
       /\ \A p \in Procs :
             (pc[p] = "idle" /\ pc'[p] = "create_commit") => ~Collides(call'[p], table)
       /\ \A p \in Procs :
             (pc[p] = "create_rollback" /\ pc'[p] = "idle")
             => (last'.ret = NoReturn /\ table' = table)]_vars

\* the access_token generated for one user is that of the other user's row
C12_Witness ==
    /\ CreateFailed
    /\ \E r \in table : /\ r.user_id # last.call.user_id
                        /\ r.session_id # last.call.session_id
                        /\ r.access_token = last.call.access_token

(* ---------------------------------------------------------------------- *)
(* Store failures: a statement or a commit of create_session or            *)
(* validate_session raises (sqlite3.Error: database is locked, disk I/O    *)
(* error, ...).                                                            *)
(* ---------------------------------------------------------------------- *)
\* the locals of a create_session call that passed the gate
CreateCall(user_id, remember_me, request) ==
    [NoCall EXCEPT !.op = "create_session", !.user_id = user_id,
                   !.remember_me = remember_me, !.consent = request,
                   !.session_id = token_urlsafe(32),
                   !.access_token = token_urlsafe(48),
                   !.expires_at = isoformat(LocalNow + session_duration(remember_me)),
                   !.checked_at = LocalNow]

\* DELETE FROM user_sessions WHERE user_id = ? raises
CreateDeleteFails(p) ==
    /\ Dispatch(p)
    /\ \E user_id \in Users, remember_me \in BOOLEAN, request \in ConsentRequests :
          /\ ~consent_required(request)
          /\ call' = [call EXCEPT ![p] = CreateCall(user_id, remember_me, request)]
    /\ issued' = issued + 1
    /\ pc' = [pc EXCEPT ![p] = "create_rollback"]
    /\ last' = NoEvent
    /\ UNCHANGED <<table, lock, tx, clock, tz, ticks, removed>>

\* the DELETE is executed, INSERT INTO user_sessions raises
CreateInsertFails(p) ==
    /\ Dispatch(p)
    /\ \E user_id \in Users, remember_me \in BOOLEAN, request \in ConsentRequests :
          /\ ~consent_required(request)
          /\ Begin(p, DeleteByUser(table, user_id))
          /\ call' = [call EXCEPT ![p] = CreateCall(user_id, remember_me, request)]
    /\ issued' = issued + 1
    /\ pc' = [pc EXCEPT ![p] = "create_rollback"]
    /\ last' = NoEvent
    /\ UNCHANGED <<table, clock, tz, ticks, removed>>

\* conn.commit() raises: the transaction stays open
CreateCommitFails(p) ==
    /\ pc[p] = "create_commit"
    /\ pc' = [pc EXCEPT ![p] = "create_rollback"]
    /\ last' = NoEvent
    /\ UNCHANGED <<table, lock, tx, call, clock, tz, issued, ticks, calls, removed>>

create_session_fails(p) ==
    \/ CreateDeleteFails(p)
    \/ CreateInsertFails(p)
    \/ CreateCommitFails(p)
    \/ CreateRollback(p)

\* the SELECT raises
ValidateSelectFails(p) ==
    /\ Dispatch(p)
    /\ \E session_id \in SessionIdCookies \ {NoToken},
          access_token \in AccessTokenCookies \ {NoToken}, prolong \in BOOLEAN :
          call' = [call EXCEPT ![p] =
                     [NoCall EXCEPT !.op = "validate_session",
                                    !.session_id = session_id,
                                    !.access_token = access_token,
                                    !.prolong = prolong]]
    /\ pc' = [pc EXCEPT ![p] = "validate_close"]
    /\ last' = NoEvent
    /\ UNCHANGED <<table, lock, tx, clock, tz, issued, ticks, removed>>

\* the DELETE of the expired row, or UPDATE ... SET last_activity, raises
ValidateStatementFails(p) ==
    /\ pc[p] \in {"validate_delete", "validate_update"}
    /\ pc' = [pc EXCEPT ![p] = "validate_close"]
    /\ last' = NoEvent
    /\ UNCHANGED <<table, lock, tx, call, clock, tz, issued, ticks, calls, removed>>

\* UPDATE ... SET last_activity is executed, UPDATE ... SET expires_at raises
ValidateRenewFails(p) ==
    /\ pc[p] = "validate_update"
    /\ should_prolong(call[p].prolong, call[p].result.remember_me)
    /\ Begin(p, TouchSession(table, call[p].session_id))
    /\ call' = [call EXCEPT ![p].renewed_at = LocalNow]
    /\ pc' = [pc EXCEPT ![p] = "validate_close"]
    /\ last' = NoEvent
    /\ UNCHANGED <<table, clock, tz, issued, ticks, calls, removed>>

\* conn.commit() raises: the transaction stays open
ValidateCommitFails(p) ==
    /\ pc[p] \in {"validate_commit", "validate_delete_commit"}
    /\ pc' = [pc EXCEPT ![p] = "validate_close"]
    /\ last' = NoEvent
    /\ UNCHANGED <<table, lock, tx, call, clock, tz, issued, ticks, calls, removed>>

\* except Exception: return {"valid": False, "reason": "error"};
\* finally: conn.close()
ValidateClose(p) ==
    /\ pc[p] = "validate_close"
    /\ Close(p)
    /\ pc' = [pc EXCEPT ![p] = "idle"]
    /\ call' = [call EXCEPT ![p] = NoCall]
    /\ last' = Returned(call[p], [NoReturn EXCEPT !.reason = "error"])
    /\ UNCHANGED <<clock, tz, issued, ticks, calls>>

validate_session_fails(p) ==
    \/ ValidateSelectFails(p)
    \/ ValidateStatementFails(p)
    \/ ValidateRenewFails(p)
    \/ ValidateCommitFails(p)
    \/ ValidateClose(p)

\* create_session under store failures.  The clock stands still in this
\* specification (a rollback does not depend on the time), so
\* validate_session does not take its expired branch.
NextCreateFault ==
    \/ \E p \in Procs : create_session(p)
    \/ \E p \in Procs : create_session_fails(p)
    \/ \E p \in Procs : ValidateNoSession(p)
    \/ \E p \in Procs : ValidateSelect(p)
    \/ \E p \in Procs : ValidateUpdate(p)
    \/ \E p \in Procs : ValidateCommit(p)
    \/ \E p \in Procs : logout(p)
    \/ \E p \in Procs : cleanup_expired_sessions(p)

SpecCreateFault == Init /\ [][NextCreateFault]_vars

\* time passes between two requests
TickIdle ==
    /\ \A p \in Procs : pc[p] = "idle"
    /\ Tick

\* validate_session under store failures
NextValidateFault ==
    \/ TickIdle
    \/ \E p \in Procs : create_session(p)
    \/ \E p \in Procs : validate_session(p)
    \/ \E p \in Procs : validate_session_fails(p)
    \/ \E p \in Procs : logout(p)
    \/ \E p \in Procs : cleanup_expired_sessions(p)

SpecValidateFault == Init /\ [][NextValidateFault]_vars

\* C13: when the DELETE, the INSERT or the commit of create_session fails, the
\* call returns (None, None, 0) and no step of it changes the table: the
\* user's previous row is still there, no new row exists.
C13_CreateFailureRollsBack ==
    [][\A p \in Procs :
         (pc'[p] # pc[p] /\ "create_rollback" \in {pc[p], pc'[p]})
         => /\ table' = table
            /\ pc'[p] = "idle" => (last'.ret = NoReturn /\ lock' # p)]_vars

\* the INSERT or the commit failed after the DELETE of the user's previous
\* row was executed: the row is in the table, the new one is not
C13_Witness ==
    /\ CreateFailed
    /\ RowsOfUser(table, last.call.user_id) # {}
    /\ RowsOfSession(table, last.call.session_id) = {}
    /\ lock = NoProc

\* C18: when the SELECT, the DELETE, an UPDATE or the commit of
\* validate_session fails, the call returns valid=False, reason "error", and
\* no step of it changes the table: no last_activity or expires_at differs.
C18_ValidateFailureNoPartialUpdate ==
    [][\A p \in Procs :
         (pc'[p] # pc[p] /\ "validate_close" \in {pc[p], pc'[p]})
         => /\ table' = table
            /\ pc'[p] = "idle"
               => (~last'.ret.valid /\ last'.ret.reason = "error" /\ lock' # p)]_vars

\* the renewal failed after the touch was executed, at a time when the touch
\* would have written another last_activity
C18_Witness ==
    /\ ReturnedFrom("validate_session")
    /\ last.ret.reason = "error"
    /\ last.call.renewed_at # 0
    /\ \E r \in RowsOfSession(table, last.call.session_id) :
          /\ r.last_activity # sqlite_datetime(clock)
          /\ r.expires_at = last.call.result.expires_at

\* C14: validate_session on an expired session returns "session_expired" with
\* the row's email and remember_me = True if the row is remember-me, and the
\* reason alone (no email, no remember_me) if it is not.
C14_ExpiredResult ==
    (ReturnedFrom("validate_session") /\ last.ret.reason = "session_expired")
    => LET row == last.call.result IN
       /\ ~last.ret.valid
       /\ last.ret.remember_me = row.remember_me
       /\ last.ret.email = IF row.remember_me THEN UserEmail(row.user_id) ELSE <<>>
       /\ last.ret = [NoReturn EXCEPT !.reason = "session_expired",
                                      !.email = last.ret.email,
                                      !.remember_me = last.ret.remember_me]

\* an expired remember-me session
C14_Witness ==
    /\ ReturnedFrom("validate_session")
    /\ last.ret.reason = "session_expired"
    /\ last.call.result.remember_me
    /\ last.ret.email = UserEmail(8)

Janitor == 1

\* asyncio.sleep(3600) and asyncio.sleep(60), seconds
SWEEP_INTERVAL == 3600
RETRY_INTERVAL == 60

\* the locals of the task: the seconds slept since the last sweep attempt,
\* whether that attempt failed, and its time
JanitorLocals ==
    [op |-> "periodic_session_cleanup", slept |-> 0, failed |-> FALSE,
     checked_at |-> 0]

InitJanitor ==
    /\ table = {}
    /\ lock = NoProc
    /\ tx = {}
    /\ pc = [p \in Procs |-> IF p = Janitor THEN "sleep" ELSE "idle"]
    /\ call = [p \in Procs |->
                 IF p = Janitor THEN JanitorLocals ELSE NoCall]
    /\ clock = MINUTES_PER_DAY
    /\ tz \in TZOffsets
    /\ issued = 0
    /\ ticks = 0
    /\ calls = 0
    /\ removed = {}
    /\ last = NoEvent

\* await asyncio.sleep(seconds) of the task: the time passes (the clock stops
\* registering it after MaxSleeps sleeps; slept is exact)
JanitorSleeps(seconds) ==
    /\ call' = [call EXCEPT ![Janitor].slept = @ + seconds]
    /\ IF ticks < MaxSleeps
         THEN clock' = clock + seconds \div 60 /\ ticks' = ticks + 1
         ELSE UNCHANGED <<clock, ticks>>
    /\ last' = NoEvent
    /\ UNCHANGED <<table, lock, tx, tz, issued, calls, removed>>

\* the locals of the task once a sweep attempt is over
AfterSweep(failed) ==
    [call[Janitor] EXCEPT !.slept = 0, !.failed = failed, !.checked_at = LocalNow]

\* the exception ends the task
on_exception_uncaught(e) == "raised"

\* except Exception as e: the task logs and goes on to its retry sleep
on_exception(e) == "backoff"

\* await asyncio.sleep(3600)
JanitorSleep ==
    /\ pc[Janitor] = "sleep"
    /\ JanitorSleeps(SWEEP_INTERVAL)
    /\ pc' = [pc EXCEPT ![Janitor] = "sweep"]

\* deleted = cleanup_expired_sessions(): DELETE, commit, return deleted_count
JanitorSweep ==
    LET kept == DeleteExpired(table) IN
    /\ pc[Janitor] = "sweep"
    /\ lock = NoProc
    /\ table' = kept
    /\ removed' = removed \cup (Pairs(table) \ Pairs(kept))
    /\ call' = [call EXCEPT ![Janitor] = AfterSweep(FALSE)]
    /\ pc' = [pc EXCEPT ![Janitor] = "sleep"]
    /\ last' = Returned(call[Janitor],
           [NoReturn EXCEPT !.deleted = Cardinality(table) - Cardinality(kept)])
    /\ UNCHANGED <<lock, tx, clock, tz, issued, ticks, calls>>

\* the DELETE or the commit of cleanup_expired_sessions raises: the function
\* catches it, rolls back and returns, the task sees no exception
JanitorSweepFails ==
    /\ pc[Janitor] = "sweep"
    /\ call' = [call EXCEPT ![Janitor] = AfterSweep(TRUE)]
    /\ pc' = [pc EXCEPT ![Janitor] = "sleep"]
    /\ last' = Returned(call[Janitor], [NoReturn EXCEPT !.reason = "error"])
    /\ UNCHANGED <<table, lock, tx, clock, tz, issued, ticks, calls, removed>>

\* get_db() of cleanup_expired_sessions raises, outside its try block: the
\* exception reaches the task
JanitorSweepRaises ==
    /\ pc[Janitor] = "sweep"
    /\ call' = [call EXCEPT ![Janitor] = AfterSweep(TRUE)]
    /\ pc' = [pc EXCEPT ![Janitor] = on_exception("OperationalError")]
    /\ last' = Returned(call[Janitor], [NoReturn EXCEPT !.reason = "raised"])
    /\ UNCHANGED <<table, lock, tx, clock, tz, issued, ticks, calls, removed>>

\* await asyncio.sleep(60), then the next turn of while True
JanitorBackoff ==
    /\ pc[Janitor] = "backoff"
    /\ JanitorSleeps(RETRY_INTERVAL)
    /\ pc' = [pc EXCEPT ![Janitor] = "sleep"]

periodic_session_cleanup ==
    \/ JanitorSleep
    \/ JanitorSweep
    \/ JanitorSweepFails
    \/ JanitorSweepRaises
    \/ JanitorBackoff

\* the event loop resumes the task whenever its sleep is over
SpecJanitor ==
    InitJanitor /\ [][periodic_session_cleanup]_vars /\ WF_vars(periodic_session_cleanup)

\* a sweep attempt of the task has just ended
SweepAttempted == ReturnedFrom("periodic_session_cleanup")

\* C16: no sweep failure ends the background task: it is always in its loop,
\* and however many sweeps fail it attempts a sweep again and again.
C16_JanitorNeverStops ==
    /\ [](pc[Janitor] \in {"sleep", "sweep", "backoff"})
    /\ []<>SweepAttempted

\* a sweep attempt that failed, after an attempt that failed
C16_Witness ==
    /\ SweepAttempted
    /\ last.call.failed
    /\ last.ret.reason = "raised"

\* C17: after a failed sweep attempt the next attempt comes after the retry
\* interval of 60 seconds, not after 3600 seconds or the sum of both.
C17_RetryAfterShortInterval ==
    [][(pc[Janitor] = "sweep" /\ pc'[Janitor] # "sweep" /\ call[Janitor].failed)
       => call[Janitor].slept = 60]_vars

\* validate_session has returned for a row it found
ValidatedFound ==
    /\ ReturnedFrom("validate_session")
    /\ last.call.result # NoResult

\* C19: validate_session treats a session as expired whenever expires_at <=
\* now, the instant expires_at = now included: it returns "session_expired"
\* and the row is gone.
C19_ExpiredAtEquality ==
    (ValidatedFound /\ fromisoformat(last.call.result.expires_at) <= last.call.checked_at)
    => /\ ~last.ret.valid
       /\ last.ret.reason = "session_expired"
       /\ RowsOfSession(table, last.call.session_id) = {}

\* C19, amended: validate_session treats a session as expired only when
\* expires_at < now, and as valid only when expires_at >= now; at the instant
\* expires_at = now a call that meets no store failure returns valid.
C19_ExpiredStrictlyAfter ==
    ValidatedFound =>
        LET expires_at == fromisoformat(last.call.result.expires_at)
            now == last.call.checked_at
        IN  /\ last.ret.reason = "session_expired" => expires_at < now
            /\ last.ret.valid => expires_at >= now
            /\ (expires_at = now /\ last.ret.reason # "error") => last.ret.valid

\* validated at the very minute the session expires
C19_Witness ==
    /\ ValidatedFound
    /\ fromisoformat(last.call.result.expires_at) = last.call.checked_at
    /\ last.ret.valid

\* worker p is in a validate_session(prolong=True) that found an unexpired
\* session that is not remember-me
Renewing(p) ==
    /\ pc[p] \in {"validate_update", "validate_commit"}
    /\ call[p].prolong
    /\ ~call[p].result.remember_me

\* another call has written the expires_at of p's session since p read it
RenewedMeanwhile(p) ==
    \E r \in RowsOfSession(table, call[p].session_id) :
        r.expires_at # call[p].result.expires_at

\* the other worker is in a validate_session(prolong=True) on p's session
RacingWith(p) ==
    \E q \in Procs \ {p} : Renewing(q) /\ call[q].session_id = call[p].session_id

\* C20: two validate_session(prolong=True) calls on one unexpired session that
\* is not remember-me, interleaved in any order: each returns valid, the
\* table keeps exactly the one row of the session, and its expires_at is the
\* now + 30 minutes of the call that commits last.
C20_ConcurrentRenewals ==
    [][\A p \in Procs :
         (/\ Renewing(p) /\ pc[p] = "validate_commit" /\ pc'[p] = "idle"
          /\ RowsOfSession(table, call[p].session_id) # {}
          /\ RacingWith(p) \/ RenewedMeanwhile(p))
         => /\ last'.ret.valid
            /\ Cardinality(RowsOfSession(table', call[p].session_id)) = 1
            /\ \A r \in RowsOfSession(table', call[p].session_id) :
                  r.expires_at = isoformat(call[p].renewed_at + 30)
            /\ \A q \in Procs \ {p} : pc'[q] = pc[q] /\ call'[q] = call[q]]_vars

\* the first of two racing calls has returned valid and written its
\* expires_at; the second has read the row before and is about to write
C20_Witness ==
    /\ ReturnedFrom("validate_session")
    /\ last.ret.valid
    /\ last.call.prolong
    /\ \E q \in Procs :
          /\ Renewing(q)
          /\ pc[q] = "validate_update"
          /\ call[q].session_id = last.call.session_id
          /\ RenewedMeanwhile(q)

(* ---------------------------------------------------------------------- *)
(* Renewal and the lifetime given at creation                              *)
(* ---------------------------------------------------------------------- *)
\* C21: renewal never shortens a session: after validate_session(prolong=true)
\* returns valid for a session that is not remember-me, the stored expires_at
\* is not earlier than the expires_at the call found stored.
C21_RenewalNeverShortens ==
    ValidatedAndRenewed =>
        \A r \in RowsOfSession(table, last.call.session_id) :
            fromisoformat(r.expires_at) >= fromisoformat(last.call.result.expires_at)

(* ---------------------------------------------------------------------- *)
(* Process start: init_tables at import, then the startup event            *)
(* ---------------------------------------------------------------------- *)
\* DROP TABLE IF EXISTS user_sessions; CREATE TABLE IF NOT EXISTS user_sessions
init_tables(rows) == {}

\* The process is started again and the module is imported: the calls of the
\* old process are gone with their uncommitted changes, init_tables() runs
\* and commits before the server accepts a request.
ProcessStart ==
    /\ \E p \in Procs : pc[p] # "startup"
    /\ table' = init_tables(table)
    /\ removed' = removed \cup (Pairs(table) \ Pairs(init_tables(table)))
    /\ lock' = NoProc
    /\ tx' = {}
    /\ pc' = [p \in Procs |-> "startup"]
    /\ call' = [p \in Procs |-> NoCall]
    /\ last' = NoEvent
    /\ UNCHANGED <<clock, tz, issued, ticks, calls>>

\* startup_event: await startup_cleanup(), which runs
\* cleanup_expired_sessions() to its end; then requests are served
startup_event ==
    LET kept == DeleteExpired(table) IN
    /\ \A p \in Procs : pc[p] = "startup"
    /\ table' = kept
    /\ removed' = removed \cup (Pairs(table) \ Pairs(kept))
    /\ pc' = [p \in Procs |-> "idle"]
    /\ last' = Returned([NoCall EXCEPT !.op = "startup_cleanup", !.checked_at = LocalNow,
                                       !.deleted_count = Cardinality(table) - Cardinality(kept)],
                        [NoReturn EXCEPT !.deleted = Cardinality(table) - Cardinality(kept)])
    /\ UNCHANGED <<lock, tx, call, clock, tz, issued, ticks, calls>>

\* the server is stopped and started between the requests it serves
NextRestart ==
    \/ TickIdle
    \/ ProcessStart
    \/ startup_event
    \/ \E p \in Procs : create_session(p)
    \/ \E p \in Procs : validate_session(p)
    \/ \E p \in Procs : logout(p)
    \/ \E p \in Procs : cleanup_expired_sessions(p)

SpecRestart == Init /\ [][NextRestart]_vars

\* C22: process startup removes only expired sessions: every committed row
\* whose expires_at is not in the past when the process starts is still in
\* the table after init_tables and after the startup sweep.
C22_StartupKeepsUnexpired ==
    [][(\A p \in Procs : pc'[p] = "startup" \/ pc[p] = "startup")
        => \A r \in table : ~is_expired(LocalNow, r.expires_at) => r \in table']_vars

(* ---------------------------------------------------------------------- *)
(* The expires_at validate_session returns                                 *)
(* ---------------------------------------------------------------------- *)
\* worker p is about to commit and no other call is in flight or has written
\* the session since p's SELECT
ValidatesAlone(p) ==
    /\ pc[p] = "validate_commit"
    /\ \A q \in Procs \ {p} : pc[q] = "idle"
    /\ \E r \in RowsOfSession(table, call[p].session_id) :
          r.expires_at = call[p].result.expires_at

\* C23: when validate_session returns valid with no concurrent operation on
\* the session, the expires_at of the result is the expires_at stored for the
\* session when the call returns.
C23_ReturnedExpiresAtIsStored ==
    [][\A p \in Procs :
         (ValidatesAlone(p) /\ pc'[p] = "idle")
         => /\ last'.ret.valid
            /\ \A r \in RowsOfSession(table', call[p].session_id) :
                  fromisoformat(r.expires_at) = fromisoformat(last'.ret.expires_at)]_vars

(* ---------------------------------------------------------------------- *)
(* The columns of a row that are fixed at its insertion                    *)
(* ---------------------------------------------------------------------- *)
\* the identity of a row: every column but last_activity and expires_at
Identity(r) ==
    [session_id |-> r.session_id, access_token |-> r.access_token,
     user_id |-> r.user_id, user_login |-> r.user_login, email |-> r.email,
     remember_me |-> r.remember_me]

\* C24: from its insertion to its deletion a row keeps its session_id,
\* access_token, user_id, user_login, email and remember_me: a step that is
\* not the commit of a create_session (validate_session, logout, the sweep)
\* leaves in the table only rows that were there, with these columns
\* unchanged, and the commit of a create_session changes none of these
\* columns in the rows of the other users.
C24_IdentityColumnsFixed ==
    [][/\ (\A p \in Procs : ~(pc[p] = "create_commit" /\ pc'[p] = "idle"))
          => \A r2 \in table' : \E r1 \in table : Identity(r1) = Identity(r2)
       /\ \A p \in Procs : (pc[p] = "create_commit" /\ pc'[p] = "idle")
          => \A r1 \in table : r1.user_id # call[p].user_id
                => \E r2 \in table' : Identity(r1) = Identity(r2)]_vars

\* validate_session has returned valid for a remember-me row some time after
\* the row's insertion: the row is there with a later last_activity
C24_Witness ==
    /\ ReturnedFrom("validate_session")
    /\ last.ret.valid
    /\ \E r \in RowsOfSession(table, last.call.session_id) :
          /\ r.remember_me
          /\ last.call.renewed_at > fromisoformat(r.expires_at) - REMEMBER_DURATION
          /\ r.last_activity = sqlite_datetime(last.call.renewed_at - tz)
====
